---- MODULE Spec2Model ----
(***************************************************************************)
(* A model of libratom/cli/utils.py: the click callback                   *)
(* validate_version_string and the report function list_spacy_models.     *)
(*                                                                         *)
(* A Python str is a sequence of one-character strings, so that           *)
(* startswith, split, the comparison used by sort and the regular         *)
(* expression are computed character by character.  An Optional value is  *)
(* a sequence of length at most one: None is << >> and a value v is       *)
(* << v >>.                                                                *)
(***************************************************************************)
EXTENDS Integers, Sequences, FiniteSets, Bags, TLC

\* Bounds of the model.
MaxReleases == 3   \* releases in one remote response
MaxRuns == 2       \* consecutive invocations of list_spacy_models
MaxLen == 5        \* characters of a value given to validate_version_string

None == << >>
Some(v) == << v >>

(***************************************************************************)
(* Python str primitives                                                   *)
(***************************************************************************)

\* ord(c) for the characters the model uses.
Ord(c) ==
    CASE c = "-" -> 45
      [] c = "." -> 46
      [] c = "0" -> 48
      [] c = "1" -> 49
      [] c = "2" -> 50
      [] c = "a" -> 97
      [] c = "b" -> 98
      [] c = "c" -> 99
      [] c = "v" -> 118

\* s < t for two str: lexicographic by code point, a proper prefix is smaller.
RECURSIVE StrLess(_, _)
StrLess(s, t) ==
    IF t = << >> THEN FALSE
    ELSE IF s = << >> THEN TRUE
    ELSE IF Ord(Head(s)) # Ord(Head(t)) THEN Ord(Head(s)) < Ord(Head(t))
    ELSE StrLess(Tail(s), Tail(t))

\* s.startswith(p)
StartsWith(s, p) ==
    /\ Len(p) <= Len(s)
    /\ SubSeq(s, 1, Len(p)) = p

\* s.split(sep) for a one-character sep: cuts at EVERY occurrence of sep.
RECURSIVE Split(_, _)
Split(s, sep) ==
    IF \A k \in 1..Len(s) : s[k] # sep
    THEN << s >>
    ELSE LET k == CHOOSE j \in 1..Len(s) :
                      /\ s[j] = sep
                      /\ \A h \in 1..(j - 1) : s[h] # sep
         IN  << SubSeq(s, 1, k - 1) >> \o Split(SubSeq(s, k + 1, Len(s)), sep)

(***************************************************************************)
(* The world list_spacy_models runs in                                     *)
(***************************************************************************)

\* Release identifiers ("name" fields) the remote source may list: well
\* formed ones, two versions of one model, a model whose name extends
\* another's, one without a hyphen and one with two hyphens.
Identifiers ==
    { << "b", "-", "1" >>,
      << "a", "-", "1" >>,
      << "a", "-", "2" >>,
      << "a", "b", "-", "1" >>,
      << "a", "b" >>,
      << "b", "-", "1", "-", "2" >> }

\* The bodies of a successful response: JSON arrays of release objects,
\* each reduced to its "name".
Bodies == UNION { [1..n -> Identifiers] : n \in 0..MaxReleases }

\* What requests.get can come back with: a transport failure (it raises),
\* or a response with a status code and a body.
Remotes ==
    { [error |-> "ConnectionError", status_code |-> 0, content |-> << >>] }
    \cup { [error |-> "none", status_code |-> c, content |-> << >>] : c \in {404, 500} }
    \cup { [error |-> "none", status_code |-> 200, content |-> b] : b \in Bodies }

\* The values of the model_name argument: None, the empty string, prefixes
\* of names, a prefix that runs over the hyphen, and a string that occurs
\* in identifiers but never at their start.
FilterNames ==
    { None, Some(<< >>), Some(<< "a" >>), Some(<< "a", "-" >>), Some(<< "1" >>) }

\* Distribution names the registry may know, and the local registries.
DistNames == { << "a" >>, << "b" >>, << "a", "b" >> }
NoneInstalled == [n \in DistNames |-> None]
Registries ==
    { NoneInstalled,
      [NoneInstalled EXCEPT ![<< "a" >>] = Some(<< "2" >>)],
      [NoneInstalled EXCEPT ![<< "b" >>] = Some(<< "1" >>), ![<< "a", "b" >>] = Some(<< "2" >>)] }

VARIABLES
    remote,      \* what the releases endpoint answers
    registry,    \* the local package registry: name -> Optional version
    model_name,  \* the argument of list_spacy_models
    pc,          \* position inside list_spacy_models
    response,    \* local: the requests.Response
    releases,    \* local: the list of split identifiers
    i,           \* the for loop's position in releases
    table,       \* local: the table handed to tabulate
    status,      \* Optional return value of the invocation
    exc,         \* the exception the invocation raised, or "none"
    stdout,      \* the tables this invocation printed
    nreq,        \* requests this invocation issued
    parsed,      \* whether this invocation parsed the response body
    nlookups,    \* registry queries this invocation made
    run,         \* number of the current invocation
    history,     \* outcomes of the finished invocations
    value,       \* the argument of validate_version_string
    vresult      \* its outcome

envVars == << remote, registry, model_name >>
callVars == << pc, response, releases, i, table, status, exc, stdout,
               nreq, parsed, nlookups, run, history >>
validateVars == << value, vresult >>
vars == << envVars, callVars, validateVars >>

\* The first row of the table; each cell is written as a one-word str.
Header == << << "spaCy model" >>, << "installed version" >>, << "latest version" >> >>

(***************************************************************************)
(* The steps of list_spacy_models as functions of its locals               *)
(***************************************************************************)

\* requests.Response.ok: the status code is below 400.
Ok(resp) == resp.status_code < 400

\* Variant: only a server error counts as a failed response.
ResponseFailedOnServerError(resp) == resp.status_code >= 500

\* "if not response.ok: return -1"
ResponseFailed(resp) == ~Ok(resp)

\* Variant: the filter keeps an identifier that contains model_name
\* anywhere ("model_name in name" for "name.startswith(model_name)").
RetainedAnywhere(content, filter) ==
    IF filter # None /\ filter[1] # << >>
    THEN SelectSeq(content,
                   LAMBDA id : \E a \in 1..(Len(id) + 1) :
                                   StartsWith(SubSeq(id, a, Len(id)), filter[1]))
    ELSE content

\* The two list comprehensions: with a truthy model_name the identifiers
\* that start with it, otherwise all of them; each split at its hyphens.
Retained(content, filter) ==
    IF filter # None /\ filter[1] # << >>
    THEN SelectSeq(content, LAMBDA id : StartsWith(id, filter[1]))
    ELSE content

SplitAll(ids) == [k \in 1..Len(ids) |-> Split(ids[k], "-")]

\* list.sort(key=lambda x: x[0]) is stable: an entry goes behind every
\* entry whose key is not greater than its own.
InsertByName(sorted, x) ==
    LET after == { k \in 1..Len(sorted) : StrLess(x[1], sorted[k][1]) }
        at == IF after = {} THEN Len(sorted) + 1
              ELSE CHOOSE k \in after : \A h \in after : k <= h
    IN  SubSeq(sorted, 1, at - 1) \o << x >> \o SubSeq(sorted, at, Len(sorted))

RECURSIVE SortFrom(_, _)
SortFrom(sorted, rest) ==
    IF rest = << >> THEN sorted
    ELSE SortFrom(InsertByName(sorted, Head(rest)), Tail(rest))

\* Variant: the sort is left out.
Unsorted(rels) == rels

\* Variant: the sort runs from the greatest name down.
SortByNameDescending(rels) ==
    LET up == SortFrom(<< >>, rels)
    IN  [k \in 1..Len(up) |-> up[Len(up) + 1 - k]]

SortByName(rels) == SortFrom(<< >>, rels)

\* Variant: the table is a list that outlives the invocation.
RetainedTable == table

\* "table = [[...]]": a new list in every invocation.
FreshTable == << Header >>

\* "for name, version in releases" unpacks an entry of exactly two parts.
Unpacks(entry) == Len(entry) = 2

\* pkg_resources.get_distribution(name): the distribution, or the
\* DistributionNotFound it raises.
GetDistribution(reg, name) ==
    IF name \in DOMAIN reg /\ reg[name] # None
    THEN [raised |-> "none", version |-> reg[name][1]]
    ELSE [raised |-> "DistributionNotFound", version |-> << >>]

\* Variant: the lookup asks for the identifier's version part, which names
\* no distribution.
InstalledVersionOfWrongName(reg, name) == None

\* The try/except around the lookup.
InstalledVersion(reg, name) ==
    LET d == GetDistribution(reg, name)
    IN  IF d.raised = "DistributionNotFound" THEN None ELSE Some(d.version)

\* "table.append([name, installed_model_version, version])"
Row(entry, reg) == << entry[1], InstalledVersion(reg, entry[1]), entry[2] >>

(***************************************************************************)
(* list_spacy_models, step by step                                         *)
(***************************************************************************)

NoResponse == [error |-> "none", status_code |-> 0, content |-> << >>]

\* The locals and the outcome of an invocation that has not started.
CallStart ==
    /\ pc = "request"
    /\ response = NoResponse
    /\ releases = << >>
    /\ i = 1
    /\ table = << >>
    /\ status = None
    /\ exc = "none"
    /\ stdout = << >>
    /\ nreq = 0
    /\ parsed = FALSE
    /\ nlookups = 0

ValidateIdle ==
    /\ value = << >>
    /\ vresult = [kind |-> "idle", value |-> << >>]

Init ==
    /\ remote \in Remotes
    /\ registry \in Registries
    /\ model_name \in FilterNames
    /\ CallStart
    /\ run = 1
    /\ history = << >>
    /\ ValidateIdle

\* response = requests.get(url=...): a transport failure propagates as the
\* exception requests raises, nothing in the function catches it.
Request ==
    /\ pc = "request"
    /\ nreq' = nreq + 1
    /\ IF remote.error # "none"
       THEN /\ exc' = remote.error
            /\ pc' = "raised"
            /\ UNCHANGED response
       ELSE /\ response' = remote
            /\ pc' = "check"
            /\ UNCHANGED exc
    /\ UNCHANGED << envVars, releases, i, table, status, stdout, parsed,
                    nlookups, run, history, validateVars >>

\* if not response.ok: return -1
CheckResponse ==
    /\ pc = "check"
    /\ IF ResponseFailed(response)
       THEN /\ status' = Some(-1)
            /\ pc' = "returned"
       ELSE /\ pc' = "parse"
            /\ UNCHANGED status
    /\ UNCHANGED << envVars, response, releases, i, table, exc, stdout, nreq,
                    parsed, nlookups, run, history, validateVars >>

\* json.loads, the list comprehension, the sort and the new table.
ParseAndSort ==
    /\ pc = "parse"
    /\ parsed' = TRUE
    /\ releases' = SortByName(SplitAll(Retained(response.content, model_name)))
    /\ table' = FreshTable
    /\ i' = 1
    /\ pc' = "loop"
    /\ UNCHANGED << envVars, response, status, exc, stdout, nreq, nlookups,
                    run, history, validateVars >>

\* One iteration of the for loop: unpack the entry (a ValueError when it
\* has not exactly two parts), look the name up, append the row.
LoopStep ==
    /\ pc = "loop"
    /\ i <= Len(releases)
    /\ IF Unpacks(releases[i])
       THEN /\ table' = Append(table, Row(releases[i], registry))
            /\ nlookups' = nlookups + 1
            /\ i' = i + 1
            /\ UNCHANGED << pc, exc >>
       ELSE /\ exc' = "ValueError"
            /\ pc' = "raised"
            /\ UNCHANGED << table, nlookups, i >>
    /\ UNCHANGED << envVars, response, releases, status, stdout, nreq, parsed,
                    run, history, validateVars >>

\* print(tabulate(table, headers="firstrow")); return 0
PrintTable ==
    /\ pc = "loop"
    /\ i > Len(releases)
    /\ stdout' = Append(stdout, table)
    /\ status' = Some(0)
    /\ pc' = "returned"
    /\ UNCHANGED << envVars, response, releases, i, table, exc, nreq, parsed,
                    nlookups, run, history, validateVars >>

Finished == pc \in { "returned", "raised" }

Outcome == [status |-> status, exc |-> exc, stdout |-> stdout]

\* The caller invokes the function again, in the same world.  The locals
\* of the finished invocation are gone: each is assigned before it is
\* read, so the model leaves them as they are.
NextInvocation ==
    /\ Finished
    /\ run < MaxRuns
    /\ run' = run + 1
    /\ history' = Append(history, Outcome)
    /\ pc' = "request"
    /\ status' = None
    /\ exc' = "none"
    /\ stdout' = << >>
    /\ nreq' = 0
    /\ parsed' = FALSE
    /\ nlookups' = 0
    /\ UNCHANGED << envVars, response, releases, i, table, validateVars >>

Next ==
    \/ Request
    \/ CheckResponse
    \/ ParseAndSort
    \/ LoopStep
    \/ PrintTable
    \/ NextInvocation

Spec == Init /\ [][Next]_vars

(***************************************************************************)
(* list_spacy_models as a function of the response body, the argument and  *)
(* the registry: the rows it prints and whether its loop raises            *)
(***************************************************************************)

Entries(content, filter) == SortByName(SplitAll(Retained(content, filter)))

LoopRaises(content, filter) ==
    LET es == Entries(content, filter)
    IN  \E k \in 1..Len(es) : ~Unpacks(es[k])

ReportRows(content, filter, reg) ==
    LET es == Entries(content, filter)
    IN  [k \in 1..Len(es) |-> Row(es[k], reg)]

(***************************************************************************)
(* validate_version_string                                                 *)
(***************************************************************************)

\* \d for the characters of the model
IsDigit(c) == c \in { "0", "1", "2" }

\* \d+ from position p: the positions the match can end before.
DigitsFrom(s, p) ==
    { q \in (p + 1)..(Len(s) + 1) : \A k \in p..(q - 1) : IsDigit(s[k]) }

\* (?:\.\d+) from position p
GroupFrom(s, p) ==
    IF p <= Len(s) /\ s[p] = "." THEN DigitsFrom(s, p + 1) ELSE { }

\* (?:\.\d+)+ from any of the positions ps
RECURSIVE GroupsFrom(_, _)
GroupsFrom(s, ps) ==
    LET once == UNION { GroupFrom(s, p) : p \in ps }
    IN  IF once = { } THEN { } ELSE once \cup GroupsFrom(s, once)

\* Variant: the pattern must match the whole value (fullmatch for match).
FullMatch(s) == (Len(s) + 1) \in GroupsFrom(s, DigitsFrom(s, 1))

\* version_pattern.match(value): the pattern matches at the start of value.
Match(s) == GroupsFrom(s, DigitsFrom(s, 1)) # { }

VersionChars == { "0", "1", "2", ".", "v", "a", "b", "c" }
Values == UNION { [1..n -> VersionChars] : n \in 0..MaxLen }

InitValidate ==
    /\ remote = NoResponse
    /\ registry = NoneInstalled
    /\ model_name = None
    /\ CallStart
    /\ run = 1
    /\ history = << >>
    /\ value \in Values
    /\ vresult = [kind |-> "idle", value |-> << >>]

\* The callback: BadParameter(value) unless the pattern matches, else value.
ValidateVersionString ==
    /\ vresult.kind = "idle"
    /\ vresult' = IF ~Match(value)
                  THEN [kind |-> "BadParameter", value |-> value]
                  ELSE [kind |-> "return", value |-> value]
    /\ UNCHANGED << envVars, callVars, value >>

NextValidate == ValidateVersionString

SpecValidate == InitValidate /\ [][NextValidate]_vars

(***************************************************************************)
(* Properties                                                              *)
(***************************************************************************)

\* The outcomes of all invocations so far, the current one last.
AllOutcomes == Append(history, Outcome)

\* Every table printed so far.
Printed(P(_)) ==
    \A n \in 1..Len(AllOutcomes) :
        \A m \in 1..Len(AllOutcomes[n].stdout) : P(AllOutcomes[n].stdout[m])

\* The remote call of this world succeeded.
RemoteOk == remote.error = "none" /\ remote.status_code < 400

\* An identifier read as "<name>-<version>", cut at its first hyphen.
HyphensOf(id) == { k \in 1..Len(id) : id[k] = "-" }
FirstHyphen(id) == CHOOSE k \in HyphensOf(id) : \A h \in HyphensOf(id) : k <= h
NameOf(id) == IF HyphensOf(id) = { } THEN id ELSE SubSeq(id, 1, FirstHyphen(id) - 1)
VersionOf(id) == SubSeq(id, FirstHyphen(id) + 1, Len(id))

\* The identifier a row stands for.
Join(row) == row[1] \o << "-" >> \o row[3]

\* The prefix test of the filter, on a full identifier.
Passes(id) ==
    \/ model_name = None
    \/ \E n \in 0..Len(id) : SubSeq(id, 1, n) = model_name[1]

RowsAscend(t) == \A k \in 2..(Len(t) - 1) : ~StrLess(t[k + 1][1], t[k][1])

\* C1: the rows of every printed table, after the header, are in ascending
\* order of model name: no row's name is greater than the next row's.
C1_RowsSortedByName == Printed(RowsAscend)

\* C1 witness: a report of three rows was printed for a response that did
\* not list the models in name order.
C1_Witness ==
    /\ pc = "returned"
    /\ Len(stdout) = 1
    /\ Len(stdout[1]) = 4
    /\ \E k \in 1..(Len(remote.content) - 1) :
           StrLess(NameOf(remote.content[k + 1]), NameOf(remote.content[k]))

RowsMatchRetained(t) ==
    /\ Len(t) - 1 = Cardinality({ k \in DOMAIN remote.content : Passes(remote.content[k]) })
    /\ \A id \in Identifiers :
           Cardinality({ k \in 2..Len(t) : Join(t[k]) = id })
               = Cardinality({ k \in DOMAIN remote.content :
                                   remote.content[k] = id /\ Passes(id) })

\* C2: the rows of a printed report correspond one to one to the releases
\* of the response whose identifier starts with model_name, and to all its
\* releases when model_name is absent: as many rows as such releases, and
\* each identifier stands behind as many rows as it has such releases.
C2_RowsAreTheRetainedReleases == Printed(RowsMatchRetained)

\* C2 witness: with a model_name given, a report was printed for a response
\* with a release that passes the prefix test and one that fails it.
C2_Witness ==
    /\ pc = "returned"
    /\ Len(stdout) = 1
    /\ model_name # None
    /\ model_name[1] # << >>
    /\ \E k \in DOMAIN remote.content : Passes(remote.content[k])
    /\ \E k \in DOMAIN remote.content : ~Passes(remote.content[k])

RowsShowRegistry(t) ==
    \A k \in 2..Len(t) :
        IF t[k][1] \in DOMAIN registry
        THEN t[k][2] = registry[t[k][1]]
        ELSE t[k][2] = None

\* C3: in every row of a printed report the installed version is the
\* version the registry holds for the row's model name, and null when it
\* holds none; no invocation ends in DistributionNotFound.
C3_InstalledVersionFromRegistry ==
    /\ Printed(RowsShowRegistry)
    /\ \A n \in 1..Len(AllOutcomes) : AllOutcomes[n].exc # "DistributionNotFound"

\* C3 witness: a printed report has a row of an installed model behind a
\* row of a model that is not installed, and the response listed them the
\* other way round.
C3_Witness ==
    /\ pc = "returned"
    /\ Len(stdout) = 1
    /\ Len(remote.content) >= 2
    /\ NameOf(remote.content[1]) \in DOMAIN registry
    /\ registry[NameOf(remote.content[1])] # None
    /\ \E k \in 2..(Len(stdout[1]) - 1) :
           /\ stdout[1][k][2] = None
           /\ stdout[1][k + 1][2] # None
           /\ stdout[1][k + 1][1] = NameOf(remote.content[1])

\* C4: when the response is not a success, the invocation issues one
\* request and no more, never parses the body, never queries the registry,
\* prints nothing, raises nothing, and returns -1.
C4_FailedResponseReturnsAtOnce ==
    (remote.error = "none" /\ remote.status_code >= 400) =>
        /\ nreq <= 1
        /\ ~parsed
        /\ nlookups = 0
        /\ stdout = << >>
        /\ pc # "raised"
        /\ pc \notin { "parse", "loop" }
        /\ (pc = "returned" => nreq = 1 /\ status = Some(-1))

\* C4 witness: an invocation answered with a 4xx or 5xx has returned.
C4_Witness ==
    /\ remote.error = "none"
    /\ remote.status_code >= 400
    /\ pc = "returned"
    /\ status = Some(-1)

\* C5: once the remote call has succeeded, the invocation never fails: it
\* ends by returning 0 with one printed report and raises nothing, whatever
\* the number of hyphens in the identifiers of the response.
C5_ReportPathNeverFails ==
    (RemoteOk /\ Finished) =>
        /\ pc = "returned"
        /\ exc = "none"
        /\ status = Some(0)
        /\ Len(stdout) = 1

\* C6: a transport failure of the remote call ends the invocation the way
\* a non-success status does, by returning -1.
C6_TransportFailureReturnsSentinel ==
    (remote.error # "none" /\ Finished) =>
        /\ pc = "returned"
        /\ status = Some(-1)

\* The orders in which a remote source can list the releases of a body.
RECURSIVE Orders(_)
Orders(content) ==
    IF content = << >> THEN { << >> }
    ELSE UNION { { << content[k] >> \o rest :
                       rest \in Orders(SubSeq(content, 1, k - 1)
                                          \o SubSeq(content, k + 1, Len(content))) } :
                 k \in 1..Len(content) }

Names(rows) == [k \in 1..Len(rows) |-> rows[k][1]]

Occurrences(rows, r) == Cardinality({ k \in 1..Len(rows) : rows[k] = r })

SameRowsAsBag(rows, other) ==
    /\ Len(rows) = Len(other)
    /\ \A k \in 1..Len(rows) : Occurrences(rows, rows[k]) = Occurrences(other, rows[k])

DistinctNames(rows) ==
    \A a, b \in 1..Len(rows) : rows[a][1] = rows[b][1] => a = b

\* The versions of the releases of one model, in the order of a sequence.
RECURSIVE VersionsListed(_, _)
VersionsListed(ids, name) ==
    IF ids = << >> THEN << >>
    ELSE IF Passes(Head(ids)) /\ NameOf(Head(ids)) = name
         THEN << VersionOf(Head(ids)) >> \o VersionsListed(Tail(ids), name)
         ELSE VersionsListed(Tail(ids), name)

RECURSIVE VersionsShown(_, _)
VersionsShown(rows, name) ==
    IF rows = << >> THEN << >>
    ELSE IF Head(rows)[1] = name
         THEN << Head(rows)[3] >> \o VersionsShown(Tail(rows), name)
         ELSE VersionsShown(Tail(rows), name)

\* C7 as stated: the rows of a printed report are the rows the function
\* prints for every other order of the same releases.
C7_SameRowsForEveryOrder ==
    (pc = "returned" /\ status = Some(0)) =>
        \A other \in Orders(remote.content) :
            ReportRows(other, model_name, registry) = Tail(stdout[1])

\* C7 amended: for every other order of the same releases the function
\* prints a report exactly when it prints one for this order (otherwise
\* both invocations end in ValueError); the two reports have the same
\* sequence of model names and the same rows counted with multiplicity;
\* rows of one model name stand in the order the response listed them; and
\* the two row sequences are equal when no two rows share a model name.
C7_SameRowsUpToEqualNames ==
    /\ (pc = "raised" /\ exc = "ValueError") =>
           \A other \in Orders(remote.content) : LoopRaises(other, model_name)
    /\ (pc = "returned" /\ status = Some(0)) =>
           LET rows == Tail(stdout[1])
           IN  /\ \A name \in DistNames :
                      VersionsShown(rows, name) = VersionsListed(remote.content, name)
               /\ \A other \in Orders(remote.content) :
                      LET others == ReportRows(other, model_name, registry)
                      IN  /\ ~LoopRaises(other, model_name)
                          /\ Names(others) = Names(rows)
                          /\ SameRowsAsBag(rows, others)
                          /\ DistinctNames(rows) => others = rows

\* C7 witness: a report was printed that shows two versions of one model
\* and a second model that the response listed in front of them.
C7_Witness ==
    /\ pc = "returned"
    /\ status = Some(0)
    /\ Len(stdout[1]) = 4
    /\ ~DistinctNames(Tail(stdout[1]))
    /\ stdout[1][2][1] # stdout[1][4][1]
    /\ NameOf(remote.content[1]) = stdout[1][4][1]

\* C8: every retained identifier with at least one hyphen has a row whose
\* name is the identifier up to its first hyphen and whose latest version
\* is all that follows that hyphen; stated for the responses in which every
\* retained identifier has a hyphen.
C8_SplitAtFirstHyphen ==
    ( /\ RemoteOk
      /\ Finished
      /\ \A k \in DOMAIN remote.content :
             Passes(remote.content[k]) => HyphensOf(remote.content[k]) # { } ) =>
        \A k \in DOMAIN remote.content :
            Passes(remote.content[k]) =>
                /\ Len(stdout) = 1
                /\ \E r \in 2..Len(stdout[1]) :
                       /\ stdout[1][r][1] = NameOf(remote.content[k])
                       /\ stdout[1][r][3] = VersionOf(remote.content[k])

\* A value that starts with digits, a dot and a digit.
StartsDottedNumeric(s) ==
    \E d \in 1..Len(s) :
        /\ \A k \in 1..d : s[k] \in { "0", "1", "2" }
        /\ d + 2 <= Len(s)
        /\ s[d + 1] = "."
        /\ s[d + 2] \in { "0", "1", "2" }

Called == vresult.kind # "idle"

\* C9: validate_version_string returns its argument unchanged exactly when
\* the argument starts with one or more digits and then one or more groups
\* of a dot and one or more digits, whatever follows; otherwise it raises
\* BadParameter carrying the argument.  "1.2" and "2.0.1" pass; "v1.2",
\* "1" and "abc" are rejected.
C9_ValidateVersionString ==
    Called =>
        /\ vresult.value = value
        /\ vresult.kind = IF StartsDottedNumeric(value) THEN "return" ELSE "BadParameter"
        /\ value \in { << "1", ".", "2" >>, << "2", ".", "0", ".", "1" >> }
               => vresult.kind = "return"
        /\ value \in { << "v", "1", ".", "2" >>, << "1" >>, << "a", "b", "c" >> }
               => vresult.kind = "BadParameter"

\* C9 witness: a value with characters after its dotted numeric start was
\* returned.
C9_Witness ==
    /\ Called
    /\ vresult.kind = "return"
    /\ value = << "1", ".", "2", "a" >>

\* C10: an invocation never changes the registry, and every invocation
\* that finishes has the outcome (status, exception, printed report) of
\* every invocation that finished before it in the same world.
C10_NoRetainedState ==
    [][ /\ registry' = registry
        /\ Finished' => \A n \in 1..Len(history') : history'[n] = Outcome' ]_vars

\* C10 witness: a second invocation has finished after a first one that
\* printed a report with rows.
C10_Witness ==
    /\ run = 2
    /\ pc = "returned"
    /\ Len(history) = 1
    /\ history[1].status = Some(0)
    /\ Len(history[1].stdout[1]) >= 3
    /\ status = Some(0)

====
